---------------------------- MODULE Spec2Model ----------------------------
(***************************************************************************)
(* The sharded flat-file record store of db_service/shard.py               *)
(* (ShardManager), driven by client connections as server.py's             *)
(* handle_client drives it: each connection issues one request at a time,  *)
(* several connections run as cooperative asyncio tasks.                   *)
(*                                                                         *)
(* Strings are sequences of one-character strings, so that cleaning,       *)
(* padding, joining, splitting and stripping are computed as the code      *)
(* computes them.  A reference "a0:3" is the pair of its shard part and    *)
(* its slot id, << <<"a","0">>, 3 >>.  Time stamps are left out: no branch *)
(* of the code reads them.                                                 *)
(*                                                                         *)
(* A step of a task is what it does from one suspension point (an await    *)
(* that really suspends: an aiofiles call, a contended lock) to the next.  *)
(* cache_lock is never held across a suspension, so it is never contended  *)
(* and is not a variable of the model.                                     *)
(***************************************************************************)
EXTENDS Integers, Sequences, FiniteSets, TLC

(***************************************************************************)
(* Settings, shard.py lines 12-26.  The sizes are scaled down: the code    *)
(* has RECORD_LIMIT = 5000, LOG_LIMIT = 100 and field widths 10..64.       *)
(***************************************************************************)
RECORD_LIMIT == 2
LOG_LIMIT == 2
FIELD_SEPARATOR == "|"
FIELDS == <<"id", "username", "password_hash", "ip_reg", "last_logged", "last_ip">>
MAX_LENGTHS ==
  [id |-> 2, username |-> 2, password_hash |-> 2, ip_reg |-> 2,
   last_logged |-> 1, last_ip |-> 2]

FieldSet == {FIELDS[i] : i \in 1..Len(FIELDS)}
CreateFields == FieldSet \ {"id"}

RECURSIVE SumLengths(_)
SumLengths(i) == IF i = 0 THEN 0 ELSE MAX_LENGTHS[FIELDS[i]] + SumLengths(i - 1)
RECORD_SIZE == SumLengths(Len(FIELDS)) + (Len(FIELDS) - 1)

(***************************************************************************)
(* Characters.                                                             *)
(***************************************************************************)
NUL == "NUL"
NEWLINE == "NL"
Digits == <<"0", "1", "2", "3", "4", "5", "6", "7", "8", "9">>
DigitSet == {Digits[i] : i \in 1..10}
LowerLetters == {"a", "b", "c", "h", "l", "o", "t", "x"}
UpperLetters == {"A", "B"}
Whitespace == {" ", NEWLINE}

IsAlpha(c) == c \in LowerLetters \cup UpperLetters
Lower(c) == IF c = "A" THEN "a" ELSE IF c = "B" THEN "b" ELSE c
DigitValue(c) == CHOOSE n \in 0..9 : Digits[n + 1] = c

RECURSIVE Str(_)
Str(n) == IF n < 10 THEN <<Digits[n + 1]>> ELSE Str(n \div 10) \o <<Digits[(n % 10) + 1]>>

RECURSIVE Remove(_, _)
Remove(s, c) ==
  IF s = <<>> THEN <<>>
  ELSE IF Head(s) = c THEN Remove(Tail(s), c) ELSE <<Head(s)>> \o Remove(Tail(s), c)

Take(s, n) == SubSeq(s, 1, IF Len(s) < n THEN Len(s) ELSE n)

RECURSIVE LStrip(_)
LStrip(s) == IF s # <<>> /\ Head(s) \in Whitespace THEN LStrip(Tail(s)) ELSE s
RECURSIVE RStrip(_)
RStrip(s) ==
  IF s # <<>> /\ s[Len(s)] \in Whitespace THEN RStrip(SubSeq(s, 1, Len(s) - 1)) ELSE s
Strip(s) == RStrip(LStrip(s))

Ljust(s, n) == s \o [i \in 1..(n - Len(s)) |-> " "]

(* str.split(sep): the parts between the separators, empty parts kept. *)
RECURSIVE SplitFrom(_, _, _)
SplitFrom(s, sep, cur) ==
  IF s = <<>> THEN <<cur>>
  ELSE IF Head(s) = sep THEN <<cur>> \o SplitFrom(Tail(s), sep, <<>>)
       ELSE SplitFrom(Tail(s), sep, Append(cur, Head(s)))
Split(s, sep) == SplitFrom(s, sep, <<>>)

RECURSIVE Join(_, _)
Join(parts, sep) ==
  IF Len(parts) = 0 THEN <<>>
  ELSE IF Len(parts) = 1 THEN parts[1]
       ELSE parts[1] \o <<sep>> \o Join(Tail(parts), sep)

RECURSIVE RemoveFirst(_, _)
RemoveFirst(s, x) ==
  IF s = <<>> THEN <<>>
  ELSE IF Head(s) = x THEN Tail(s) ELSE <<Head(s)>> \o RemoveFirst(Tail(s), x)

InSeq(x, s) == \E i \in 1..Len(s) : s[i] = x
LastN(s, n) == IF Len(s) <= n THEN s ELSE SubSeq(s, Len(s) - n + 1, Len(s))
EmptyMap == [x \in {} |-> <<>>]

(***************************************************************************)
(* ShardManager's static helpers and paths.                                *)
(***************************************************************************)
_sanitize_shard_prefix(username) ==
  IF username # <<>> /\ IsAlpha(username[1]) THEN <<Lower(username[1])>> ELSE <<"q">>

_clean_field(value) == Remove(Remove(value, NEWLINE), FIELD_SEPARATOR)

_get_shard_data_path(prefix, index) == prefix \o Str(index)

(* ref.split(':') and the caller's shard[:-1], int(shard[-1]).  ok is FALSE
   where the code raises ValueError. *)
ParseRef(ref) ==
  LET shard == ref[1] IN
  IF shard = <<>> \/ shard[Len(shard)] \notin DigitSet
  THEN [ok |-> FALSE, prefix |-> <<>>, shard_index |-> 0, record_id |-> ref[2]]
  ELSE [ok |-> TRUE, prefix |-> SubSeq(shard, 1, Len(shard) - 1),
        shard_index |-> DigitValue(shard[Len(shard)]), record_id |-> ref[2]]

MakeRef(prefix, shard_index, record_id) == <<prefix \o Str(shard_index), record_id>>

(***************************************************************************)
(* The record codec, as add_record and update_record encode and            *)
(* get_record decodes.                                                     *)
(***************************************************************************)
EncodeRecord(rec) ==
  Join([i \in 1..Len(FIELDS) |-> Ljust(rec[FIELDS[i]], MAX_LENGTHS[FIELDS[i]])],
       FIELD_SEPARATOR)

ZeroSlot == [i \in 1..RECORD_SIZE |-> NUL]

NoRec == [ok |-> FALSE, rec |-> EmptyMap]

DecodeRecord(raw) ==
  IF Len(raw) # RECORD_SIZE THEN NoRec
  ELSE LET parts == Split(raw, FIELD_SEPARATOR) IN
       IF Len(parts) # Len(FIELDS) THEN NoRec
       ELSE [ok |-> TRUE,
             rec |-> [f \in FieldSet |->
                        Strip(parts[CHOOSE i \in 1..Len(FIELDS) : FIELDS[i] = f])]]

(* {k: rec[k] for k in (fields or FIELDS)}; ok is FALSE where a name is no
   key of the record (KeyError). *)
Project(rec, flds) ==
  LET names == IF flds = <<>> THEN FIELDS ELSE flds
      keys == {names[i] : i \in 1..Len(names)} IN
  IF keys \subseteq FieldSet THEN [ok |-> TRUE, rec |-> [k \in keys |-> rec[k]]]
  ELSE NoRec

(***************************************************************************)
(* The shard directory ('<prefix>.info') and the shard store.              *)
(***************************************************************************)
ZeroInfo == [shards |-> 0, free |-> EmptyMap, log |-> <<>>, index |-> EmptyMap]

(* What a document on disk holds: complete is FALSE for a document that is
   empty or cut off, which json.loads rejects. *)
Document(info) == [complete |-> TRUE, info |-> info]
PartialDocument == [complete |-> FALSE, info |-> ZeroInfo]

(* lines 67-69 and 78-92: no document, or one that json.loads rejects, gives
   the empty directory. *)
ReadDocument(disk, prefix) ==
  IF prefix \notin DOMAIN disk THEN ZeroInfo
  ELSE IF disk[prefix].complete THEN disk[prefix].info ELSE ZeroInfo

(* lines 71-76: a read that raises, or that wait_for cuts off after
   IO_TIMEOUT, gives the empty directory as well. *)
_load_info(s, prefix) ==
  IF prefix \in s.unreadable THEN ZeroInfo ELSE ReadDocument(s.infoDisk, prefix)

SetDefault(map, k) == IF k \in DOMAIN map THEN map ELSE (k :> <<>>) @@ map
Put(map, k, v) == (k :> v) @@ map
Drop(map, k) == [x \in (DOMAIN map) \ {k} |-> map[x]]

AppendLog(info, entry) == [info EXCEPT !.log = LastN(Append(info.log, entry), LOG_LIMIT)]

IndexAdd(index, key, ref) ==
  LET i == SetDefault(index, key) IN [i EXCEPT ![key] = Append(i[key], ref)]
IndexRemove(index, key, ref) ==
  IF key \in DOMAIN index /\ InSeq(ref, index[key])
  THEN [index EXCEPT ![key] = RemoveFirst(index[key], ref)]
  ELSE index

RECURSIVE IndexAddAll(_, _, _, _)
IndexAddAll(index, rec, ref, i) ==
  IF i > Len(FIELDS) THEN index
  ELSE IndexAddAll(IndexAdd(index, <<FIELDS[i], rec[FIELDS[i]]>>, ref), rec, ref, i + 1)

RECURSIVE IndexRemoveAll(_, _, _, _)
IndexRemoveAll(index, rec, ref, i) ==
  IF i > Len(FIELDS) THEN index
  ELSE IndexRemoveAll(IndexRemove(index, <<FIELDS[i], rec[FIELDS[i]]>>, ref), rec, ref, i + 1)

(* update_record's index loop over cleaned.items(). *)
RECURSIVE IndexMove(_, _, _, _)
IndexMove(index, old, cleaned, ref) ==
  IF cleaned = <<>> THEN index
  ELSE LET k == Head(cleaned)[1]
           new == Head(cleaned)[2] IN
       IndexMove(IndexAdd(IndexRemove(index, <<k, old[k]>>, ref), <<k, new>>, ref),
                 old, Tail(cleaned), ref)

(* A shard file is the sequence of its slots; slot id i is element i + 1. *)
SlotCount(files, path) == Len(files[path])

(* seek(record_id * RECORD_SIZE); read(RECORD_SIZE): short at the end of file. *)
ReadSlot(files, path, record_id) ==
  IF record_id < Len(files[path]) THEN files[path][record_id + 1] ELSE <<>>

(* seek(record_id * RECORD_SIZE); write(bytes), into the file or a new one;
   a seek past the end leaves a hole of zero bytes. *)
WriteSlot(files, path, record_id, bytes) ==
  LET old == IF path \in DOMAIN files THEN files[path] ELSE <<>>
      n == IF Len(old) > record_id + 1 THEN Len(old) ELSE record_id + 1 IN
  Put(files, path,
      [i \in 1..n |-> IF i = record_id + 1 THEN bytes
                      ELSE IF i <= Len(old) THEN old[i] ELSE ZeroSlot])

(***************************************************************************)
(* add_record's allocation, lines 135-156: the slot id comes from the free *)
(* list of the last shard or from the size of its file; data_path is set   *)
(* before the rollover test and is not set again.                          *)
(***************************************************************************)
PopFree(free) == [id |-> Head(free), rest |-> Tail(free)]

Rollover(a) ==
  [a EXCEPT !.shard_index = a.shard_index + 1,
            !.info = [a.info EXCEPT !.shards = a.shard_index + 2],
            !.record_id = 0]

(* An allocation that never looks at the free list: the id always comes
   from the size of the last shard's file. *)
AllocateNoReuse(info0, prefix, files) ==
  LET shard_index == IF info0.shards # 0 THEN info0.shards - 1 ELSE 0
      data_path == _get_shard_data_path(prefix, shard_index)
      info1 == [info0 EXCEPT !.free = SetDefault(info0.free, Str(shard_index))]
      record_id == IF data_path \in DOMAIN files THEN SlotCount(files, data_path) ELSE 0
      a == [info |-> info1, shard_index |-> shard_index, record_id |-> record_id,
            data_path |-> data_path] IN
  IF record_id >= RECORD_LIMIT THEN Rollover(a)
  ELSE IF info1.shards = 0 THEN [a EXCEPT !.info = [info1 EXCEPT !.shards = 1]]
       ELSE a

Allocate(info0, prefix, files) ==
  LET shard_index == IF info0.shards # 0 THEN info0.shards - 1 ELSE 0
      data_path == _get_shard_data_path(prefix, shard_index)
      key == Str(shard_index)
      info1 == [info0 EXCEPT !.free = SetDefault(info0.free, key)]
      free == info1.free[key]
      popped == IF free # <<>> THEN PopFree(free) ELSE [id |-> 0, rest |-> <<>>]
      record_id == IF free # <<>> THEN popped.id
                   ELSE IF data_path \in DOMAIN files THEN SlotCount(files, data_path)
                        ELSE 0
      info2 == IF free # <<>> THEN [info1 EXCEPT !.free[key] = popped.rest]
               ELSE info1
      a == [info |-> info2, shard_index |-> shard_index, record_id |-> record_id,
            data_path |-> data_path] IN
  IF record_id >= RECORD_LIMIT THEN Rollover(a)
  ELSE IF info2.shards = 0 THEN [a EXCEPT !.info = [info2 EXCEPT !.shards = 1]]
       ELSE a

(* update_record's cleaning loop, lines 269-274, over the pairs of updates. *)
RECURSIVE CleanUpdates(_)
CleanUpdates(upd) ==
  IF upd = <<>> THEN <<>>
  ELSE LET k == Head(upd)[1]
           v == Head(upd)[2] IN
       IF k = "id" \/ k \notin DOMAIN MAX_LENGTHS THEN CleanUpdates(Tail(upd))
       ELSE <<<<k, Take(_clean_field(v), MAX_LENGTHS[k])>>>> \o CleanUpdates(Tail(upd))

(* dict.update(cleaned) *)
RECURSIVE Merge(_, _)
Merge(rec, cleaned) ==
  IF cleaned = <<>> THEN rec
  ELSE Merge([rec EXCEPT ![Head(cleaned)[1]] = Head(cleaned)[2]], Tail(cleaned))

(***************************************************************************)
(* State.                                                                  *)
(*   files      shard files by path                                        *)
(*   infoDisk   the directory documents by prefix ('<prefix>.info')        *)
(*   tmpDisk    the temporary documents by prefix ('<prefix>.info.tmp')    *)
(*   cache      ShardManager.cache: reference -> fields                    *)
(*   meta_lock, data_lock   the holder of each lock, 0 when free           *)
(*   tasks      each connection's request in progress: its position (pc),  *)
(*              arguments and local variables                              *)
(*   hist       per connection, the requests answered so far with their    *)
(*              replies (what the client has seen)                         *)
(*   unreadable the prefixes whose directory document cannot be read now:  *)
(*              the read raises or does not end within IO_TIMEOUT          *)
(***************************************************************************)
VARIABLES files, infoDisk, tmpDisk, cache, meta_lock, data_lock, tasks, hist,
          unreadable

vars == <<files, infoDisk, tmpDisk, cache, meta_lock, data_lock, tasks, hist, unreadable>>

MaxConns == 2
Conns == 1..MaxConns

NoRef == <<<<>>, 0>>

IdleTask ==
  [pc |-> "idle", op |-> "none", ret |-> "none",
   ref |-> NoRef, flds |-> <<>>, vals |-> EmptyMap, upd |-> <<>>,
   field |-> "", value |-> <<>>,
   gref |-> NoRef, cleaned |-> <<>>, prefix |-> <<>>, shard_index |-> 0,
   record_id |-> 0, data_path |-> <<>>, info |-> ZeroInfo, old |-> EmptyMap,
   values |-> EmptyMap, bytes |-> <<>>, raw |-> <<>>, refs |-> <<>>, results |-> <<>>]

(* Replies. *)
Reply(kind, ok) ==
  [kind |-> kind, ok |-> ok, ref |-> NoRef, rec |-> EmptyMap, list |-> <<>>, err |-> ""]
ReplyRef(ref) == [Reply("ref", TRUE) EXCEPT !.ref = ref]
ReplyRec(rec) == [Reply("rec", TRUE) EXCEPT !.rec = rec]
ReplyNone == Reply("rec", FALSE)
ReplyBool(b) == Reply("bool", b)
ReplyList(l) == [Reply("list", TRUE) EXCEPT !.list = l]
ReplyError(e) == [Reply("error", FALSE) EXCEPT !.err = e]

Cur ==
  [files |-> files, infoDisk |-> infoDisk, tmpDisk |-> tmpDisk, cache |-> cache,
   meta_lock |-> meta_lock, data_lock |-> data_lock, tasks |-> tasks, hist |-> hist,
   unreadable |-> unreadable]

Apply(s) ==
  /\ files' = s.files
  /\ infoDisk' = s.infoDisk
  /\ tmpDisk' = s.tmpDisk
  /\ cache' = s.cache
  /\ meta_lock' = s.meta_lock
  /\ data_lock' = s.data_lock
  /\ tasks' = s.tasks
  /\ hist' = s.hist
  /\ unreadable' = s.unreadable

(* The request returns (or raises): the reply goes to the client. *)
Finish(s, t, reply) ==
  LET k == s.tasks[t] IN
  [s EXCEPT !.tasks[t] = IdleTask,
            !.hist[t] = Append(s.hist[t],
                 [op |-> k.op, ref |-> k.ref, flds |-> k.flds, vals |-> k.vals,
                  upd |-> k.upd, field |-> k.field, value |-> k.value,
                  reply |-> reply])]

(* Leaving "async with self.meta_lock: async with self.data_lock:". *)
Release(s, t) ==
  [s EXCEPT !.meta_lock = 0, !.data_lock = IF s.data_lock = t THEN 0 ELSE s.data_lock]

(***************************************************************************)
(* get_record, lines 190-220.  GetBegin is its part before the first       *)
(* suspension: the cache, the reference, the file's existence.             *)
(***************************************************************************)
GetBegin(s, ref) ==
  IF ref \in DOMAIN s.cache THEN [st |-> "hit", rec |-> s.cache[ref]]
  ELSE LET p == ParseRef(ref) IN
       IF ~p.ok THEN [st |-> "none", rec |-> EmptyMap]
       ELSE IF _get_shard_data_path(p.prefix, p.shard_index) \notin DOMAIN s.files
            THEN [st |-> "none", rec |-> EmptyMap]
            ELSE [st |-> "io", rec |-> EmptyMap]

(* The reply of a get_record called from the dispatcher. *)
GetReply(g, flds) ==
  IF ~g.ok THEN ReplyNone
  ELSE LET p == Project(g.rec, flds) IN
       IF p.ok THEN ReplyRec(p.rec) ELSE ReplyError("KeyError")

(***************************************************************************)
(* _save_info, lines 94-109, is three steps: open(tmp, 'w') leaves an      *)
(* empty temporary file, write and flush fill it, os.replace moves it      *)
(* over the document.                                                      *)
(***************************************************************************)
(* A save that opens the document itself for writing, as well as the
   temporary file: the document is empty until the write has finished. *)
SaveOpenInPlace(s, t) ==
  [s EXCEPT !.infoDisk = Put(s.infoDisk, s.tasks[t].prefix, PartialDocument),
            !.tmpDisk = Put(s.tmpDisk, s.tasks[t].prefix, PartialDocument),
            !.tasks[t].pc = "s_write"]

SaveOpen(s, t) ==
  [s EXCEPT !.tmpDisk = Put(s.tmpDisk, s.tasks[t].prefix, PartialDocument),
            !.tasks[t].pc = "s_write"]

SaveWrite(s, t) ==
  [s EXCEPT !.tmpDisk = Put(s.tmpDisk, s.tasks[t].prefix, Document(s.tasks[t].info)),
            !.tasks[t].pc = "s_replace"]

SaveReplace(s, t) ==
  LET p == s.tasks[t].prefix IN
  [s EXCEPT !.infoDisk = Put(s.infoDisk, p, s.tmpDisk[p]),
            !.tmpDisk = Drop(s.tmpDisk, p)]

(***************************************************************************)
(* add_record, lines 112-188.                                              *)
(***************************************************************************)
(* lines 134-164, under the locks: load, allocate, encode. *)
EnterAdd(s, t) ==
  LET k == s.tasks[t]
      a == Allocate(_load_info(s, k.prefix), k.prefix, s.files)
      values == [f \in FieldSet |-> IF f = "id" THEN Str(a.record_id) ELSE k.cleaned[f]] IN
  [s EXCEPT !.meta_lock = t, !.data_lock = t,
            !.tasks[t] = [k EXCEPT !.pc = "a_write", !.info = a.info,
                                   !.shard_index = a.shard_index,
                                   !.record_id = a.record_id,
                                   !.data_path = a.data_path,
                                   !.values = values,
                                   !.bytes = EncodeRecord(values)]]

(* lines 166-179: the slot is written, then the directory is brought up to date. *)
AddWrite(s, t) ==
  LET k == s.tasks[t]
      ref == MakeRef(k.prefix, k.shard_index, k.record_id)
      info1 == AppendLog(k.info, <<"CREATE", ref>>)
      info2 == [info1 EXCEPT !.index = IndexAddAll(info1.index, k.values, ref, 1)] IN
  [s EXCEPT !.files = WriteSlot(s.files, k.data_path, k.record_id, k.bytes),
            !.tasks[t] = [k EXCEPT !.pc = "s_open", !.ref = ref, !.info = info2]]

(* lines 183-188 *)
AddFinish(s, t) ==
  LET k == s.tasks[t]
      r == Release(s, t) IN
  Finish([r EXCEPT !.cache = Put(r.cache, k.ref, k.values)], t, ReplyRef(k.ref))

(***************************************************************************)
(* delete_record, lines 222-261.                                           *)
(***************************************************************************)
EnterDelete(s, t) ==
  [s EXCEPT !.meta_lock = t, !.data_lock = t, !.tasks[t].pc = "d_zero"]

(* lines 237-254 *)
DeleteZero(s, t) ==
  LET k == s.tasks[t]
      info0 == _load_info(s, k.prefix)
      key == Str(k.shard_index)
      free == SetDefault(info0.free, key)
      info1 == [info0 EXCEPT !.free = [free EXCEPT ![key] = Append(free[key], k.record_id)]]
      info2 == AppendLog(info1, <<"DELETE", k.ref>>)
      info3 == [info2 EXCEPT !.index = IndexRemoveAll(info2.index, k.old, k.ref, 1)] IN
  IF k.data_path \notin DOMAIN s.files
  THEN Finish(Release(s, t), t, ReplyBool(FALSE))
  ELSE [s EXCEPT !.files = WriteSlot(s.files, k.data_path, k.record_id, ZeroSlot),
                 !.tasks[t] = [k EXCEPT !.pc = "s_open", !.info = info3]]

(* lines 257-261 *)
DeleteFinish(s, t) ==
  LET k == s.tasks[t]
      r == Release(s, t) IN
  Finish([r EXCEPT !.cache = Drop(r.cache, k.ref)], t, ReplyBool(TRUE))

(* lines 231-235: old is known; the locks come next. *)
AfterGetDelete(s, t, g) ==
  IF ~g.ok THEN Finish(s, t, ReplyBool(FALSE))
  ELSE LET s1 == [s EXCEPT !.tasks[t].old = g.rec] IN
       IF s.meta_lock = 0 THEN EnterDelete(s1, t) ELSE [s1 EXCEPT !.tasks[t].pc = "lock"]

(***************************************************************************)
(* update_record, lines 263-329.                                           *)
(***************************************************************************)
(* An update whose exception leaves the critical section without
   releasing the locks. *)
AfterGetUpdateFullKeepsLocks(s, t, g) ==
  LET k == s.tasks[t] IN
  IF ~g.ok THEN Finish(s, t, ReplyError("TypeError"))
  ELSE LET full == [Merge(g.rec, k.cleaned) EXCEPT !["id"] = Str(k.record_id)] IN
       [s EXCEPT !.tasks[t] = [k EXCEPT !.pc = "u_write", !.bytes = EncodeRecord(full)]]

(* lines 290-301: full = get_record(ref) has returned g; a None makes
   full[k] = v (or full['id'] = ...) raise TypeError. *)
AfterGetUpdateFull(s, t, g) ==
  LET k == s.tasks[t] IN
  IF ~g.ok THEN Finish(Release(s, t), t, ReplyError("TypeError"))
  ELSE LET full == [Merge(g.rec, k.cleaned) EXCEPT !["id"] = Str(k.record_id)] IN
       [s EXCEPT !.tasks[t] = [k EXCEPT !.pc = "u_write", !.bytes = EncodeRecord(full)]]

(* lines 303-319: open(data_path, 'r+b') raises FileNotFoundError on a missing file. *)
UpdateWrite(s, t) ==
  LET k == s.tasks[t]
      info0 == _load_info(s, k.prefix)
      info1 == AppendLog(info0, <<"UPDATE", k.ref>>)
      info2 == [info1 EXCEPT !.index = IndexMove(info1.index, k.old, k.cleaned, k.ref)] IN
  IF k.data_path \notin DOMAIN s.files
  THEN Finish(Release(s, t), t, ReplyError("FileNotFoundError"))
  ELSE [s EXCEPT !.files = WriteSlot(s.files, k.data_path, k.record_id, k.bytes),
                 !.tasks[t] = [k EXCEPT !.pc = "s_open", !.info = info2]]

(* lines 323-329 *)
UpdateFinish(s, t) ==
  LET k == s.tasks[t]
      r == Release(s, t)
      c == IF k.ref \in DOMAIN r.cache
           THEN [r.cache EXCEPT ![k.ref] = Merge(r.cache[k.ref], k.cleaned)]
           ELSE r.cache IN
  Finish([r EXCEPT !.cache = c], t, ReplyBool(TRUE))

(***************************************************************************)
(* find_records, lines 331-346.                                            *)
(***************************************************************************)
EnterFind(s, t) == [s EXCEPT !.meta_lock = t, !.tasks[t].pc = "f_load"]

(* lines 341-346: the loop runs on as long as get_record answers from the
   cache or without reading; it suspends at the first file read. *)
RECURSIVE FindLoop(_, _)
FindLoop(s, t) ==
  LET k == s.tasks[t] IN
  IF k.refs = <<>> THEN Finish(s, t, ReplyList(k.results))
  ELSE LET ref == Head(k.refs)
           b == GetBegin(s, ref) IN
       IF b.st = "io"
       THEN [s EXCEPT !.tasks[t].pc = "g_read", !.tasks[t].ret = "find",
                      !.tasks[t].gref = ref]
       ELSE IF b.st = "none" THEN FindLoop([s EXCEPT !.tasks[t].refs = Tail(k.refs)], t)
       ELSE LET p == Project(b.rec, k.flds) IN
            IF ~p.ok THEN Finish(s, t, ReplyError("KeyError"))
            ELSE FindLoop([s EXCEPT !.tasks[t].refs = Tail(k.refs),
                                    !.tasks[t].results =
                                        Append(k.results, [ref |-> ref, rec |-> p.rec])], t)

(* lines 336-339 *)
FindLoad(s, t) ==
  LET k == s.tasks[t]
      info == _load_info(s, _sanitize_shard_prefix(k.value))
      key == <<k.field, k.value>>
      refs == IF key \in DOMAIN info.index THEN info.index[key] ELSE <<>> IN
  FindLoop([Release(s, t) EXCEPT !.tasks[t].refs = refs], t)

(* get_record(ref, fields) of the loop has returned g after reading the file. *)
AfterGetFind(s, t, g) ==
  LET k == s.tasks[t]
      p == Project(g.rec, k.flds) IN
  IF ~g.ok THEN FindLoop([s EXCEPT !.tasks[t].refs = Tail(k.refs)], t)
  ELSE IF ~p.ok THEN Finish(s, t, ReplyError("KeyError"))
       ELSE FindLoop([s EXCEPT !.tasks[t].refs = Tail(k.refs),
                               !.tasks[t].results =
                                   Append(k.results, [ref |-> k.gref, rec |-> p.rec])], t)

(***************************************************************************)
(* update_record before the locks, lines 264-288, and at the locks.        *)
(***************************************************************************)
EnterUpdate(s, t) ==
  LET s1 == [s EXCEPT !.meta_lock = t, !.data_lock = t]
      ref == s.tasks[t].ref
      b == GetBegin(s1, ref) IN
  IF b.st = "io"
  THEN [s1 EXCEPT !.tasks[t].pc = "g_read", !.tasks[t].ret = "update_full",
                  !.tasks[t].gref = ref]
  ELSE AfterGetUpdateFull(s1, t, [ok |-> b.st = "hit", rec |-> b.rec])

AfterGetUpdateOld(s, t, g) ==
  LET k == s.tasks[t]
      p == ParseRef(k.ref) IN
  IF ~g.ok \/ ~p.ok THEN Finish(s, t, ReplyBool(FALSE))
  ELSE LET s1 == [s EXCEPT !.tasks[t] =
                     [k EXCEPT !.old = g.rec, !.cleaned = CleanUpdates(k.upd),
                               !.prefix = p.prefix, !.shard_index = p.shard_index,
                               !.record_id = p.record_id,
                               !.data_path = _get_shard_data_path(p.prefix, p.shard_index)]] IN
       IF s.meta_lock = 0 THEN EnterUpdate(s1, t) ELSE [s1 EXCEPT !.tasks[t].pc = "lock"]

(* A get_record has returned g to the code that awaited it. *)
Continue(s, t, g) ==
  LET ret == s.tasks[t].ret IN
  CASE ret = "get" -> Finish(s, t, GetReply(g, s.tasks[t].flds))
    [] ret = "delete" -> AfterGetDelete(s, t, g)
    [] ret = "update_old" -> AfterGetUpdateOld(s, t, g)
    [] ret = "update_full" -> AfterGetUpdateFull(s, t, g)
    [] ret = "find" -> AfterGetFind(s, t, g)

(* get_record(ref) is called; ret names the caller. *)
CallGet(s, t, ref, ret) ==
  LET b == GetBegin(s, ref)
      s1 == [s EXCEPT !.tasks[t].ret = ret, !.tasks[t].gref = ref] IN
  IF b.st = "io" THEN [s1 EXCEPT !.tasks[t].pc = "g_read"]
  ELSE Continue(s1, t, [ok |-> b.st = "hit", rec |-> b.rec])

(* lines 206-208: the slot is read. *)
GetRead(s, t) ==
  LET k == s.tasks[t]
      p == ParseRef(k.gref) IN
  [s EXCEPT !.tasks[t].pc = "g_fin",
            !.tasks[t].raw = ReadSlot(s.files, _get_shard_data_path(p.prefix, p.shard_index),
                                      p.record_id)]

(* lines 209-220: the bytes are decoded and cached. *)
GetFinish(s, t) ==
  LET k == s.tasks[t]
      g == DecodeRecord(k.raw)
      s1 == IF g.ok THEN [s EXCEPT !.cache = Put(s.cache, k.gref, g.rec)] ELSE s IN
  Continue([s1 EXCEPT !.tasks[t].raw = <<>>], t, g)

(* The request starts: the code up to its first suspension. *)
AddStart(s, t, v) ==
  LET s0 == [s EXCEPT !.tasks[t] = [IdleTask EXCEPT !.op = "create", !.vals = v]]
      username == v["username"]
      cleaned == [f \in CreateFields |-> _clean_field(v[f])] IN
  IF username = <<>> \/ ~IsAlpha(username[1])
  THEN Finish(s0, t, ReplyError("ValueError"))
  ELSE IF \E f \in CreateFields : Len(cleaned[f]) > MAX_LENGTHS[f]
       THEN Finish(s0, t, ReplyError("ValueError"))
       ELSE LET s1 == [s0 EXCEPT !.tasks[t].cleaned = cleaned,
                                 !.tasks[t].prefix =
                                     _sanitize_shard_prefix(cleaned["username"])] IN
            IF s.meta_lock = 0 THEN EnterAdd(s1, t) ELSE [s1 EXCEPT !.tasks[t].pc = "lock"]

GetStart(s, t, ref, flds) ==
  CallGet([s EXCEPT !.tasks[t] = [IdleTask EXCEPT !.op = "get", !.ref = ref, !.flds = flds]],
          t, ref, "get")

DeleteStart(s, t, ref) ==
  LET p == ParseRef(ref)
      s0 == [s EXCEPT !.tasks[t] =
                [IdleTask EXCEPT !.op = "delete", !.ref = ref, !.prefix = p.prefix,
                                 !.shard_index = p.shard_index, !.record_id = p.record_id,
                                 !.data_path = _get_shard_data_path(p.prefix, p.shard_index)]] IN
  IF ~p.ok THEN Finish(s0, t, ReplyBool(FALSE)) ELSE CallGet(s0, t, ref, "delete")

UpdateStart(s, t, ref, upd) ==
  CallGet([s EXCEPT !.tasks[t] = [IdleTask EXCEPT !.op = "update", !.ref = ref, !.upd = upd]],
          t, ref, "update_old")

FindStart(s, t, field, value, flds) ==
  LET s0 == [s EXCEPT !.tasks[t] =
                [IdleTask EXCEPT !.op = "find", !.field = field, !.value = value,
                                 !.flds = flds]] IN
  IF field \notin FieldSet THEN Finish(s0, t, ReplyError("ValueError"))
  ELSE IF s.meta_lock = 0 THEN EnterFind(s0, t) ELSE [s0 EXCEPT !.tasks[t].pc = "lock"]

(* A task that waited for meta_lock gets it. *)
Enter(s, t) ==
  LET op == s.tasks[t].op IN
  CASE op = "create" -> EnterAdd(s, t)
    [] op = "delete" -> EnterDelete(s, t)
    [] op = "update" -> EnterUpdate(s, t)
    [] op = "find" -> EnterFind(s, t)

(* _save_info has returned to its caller. *)
AfterSave(s, t) ==
  LET op == s.tasks[t].op IN
  CASE op = "create" -> AddFinish(s, t)
    [] op = "delete" -> DeleteFinish(s, t)
    [] op = "update" -> UpdateFinish(s, t)

(***************************************************************************)
(* What the clients send.                                                  *)
(***************************************************************************)
MaxOps == 2
MaxOpsSeq == 4

Alice ==
  [username |-> <<"a", "l">>, password_hash |-> <<"h">>, ip_reg |-> <<"1">>,
   last_logged |-> <<"t">>, last_ip |-> <<"1">>]
Bob ==
  [username |-> <<"b", "o">>, password_hash |-> <<"h">>, ip_reg |-> <<"a">>,
   last_logged |-> <<"t">>, last_ip |-> <<" ", "x">>]
Alma ==
  [username |-> <<"A", "l">>, password_hash |-> <<"h", "|">>, ip_reg |-> <<"1">>,
   last_logged |-> <<"t">>, last_ip |-> <<"2">>]

CreateInputs == {Alice, Bob}
CreateInputsSeq == {Alice, Bob, Alma}
FieldFilters == {<<>>, <<"last_ip">>}
UpdateInputs ==
  {<<<<"last_ip", <<"2">>>>>>, <<<<"username", <<"b", "o">>>>>>,
   <<<<"id", <<"1">>>>, <<"x", <<"2">>>>>>}
FindInputs == {<<"username", <<"a", "l">>>>, <<"ip_reg", <<"a">>>>}

(* The references the clients have been given. *)
KnownRefs ==
  (UNION {{hist[c][i].reply.ref : i \in 1..Len(hist[c])} : c \in Conns}) \ {NoRef}

(***************************************************************************)
(* Actions.                                                                *)
(***************************************************************************)
Ready(t, max) == tasks[t].pc = "idle" /\ Len(hist[t]) < max

Create(t, max, inputs) ==
  /\ Ready(t, max)
  /\ \E v \in inputs : Apply(AddStart(Cur, t, v))

Get(t, max) ==
  /\ Ready(t, max)
  /\ \E ref \in KnownRefs, flds \in FieldFilters : Apply(GetStart(Cur, t, ref, flds))

Delete(t, max) ==
  /\ Ready(t, max)
  /\ \E ref \in KnownRefs : Apply(DeleteStart(Cur, t, ref))

Update(t, max) ==
  /\ Ready(t, max)
  /\ \E ref \in KnownRefs, upd \in UpdateInputs : Apply(UpdateStart(Cur, t, ref, upd))

Find(t, max) ==
  /\ Ready(t, max)
  /\ \E q \in FindInputs : Apply(FindStart(Cur, t, q[1], q[2], <<>>))

Acquire(t) ==
  /\ tasks[t].pc = "lock"
  /\ meta_lock = 0
  /\ Apply(Enter(Cur, t))

ReadStep(t) == tasks[t].pc = "g_read" /\ Apply(GetRead(Cur, t))
DecodeStep(t) == tasks[t].pc = "g_fin" /\ Apply(GetFinish(Cur, t))
AddWriteStep(t) == tasks[t].pc = "a_write" /\ Apply(AddWrite(Cur, t))
DeleteZeroStep(t) == tasks[t].pc = "d_zero" /\ Apply(DeleteZero(Cur, t))
UpdateWriteStep(t) == tasks[t].pc = "u_write" /\ Apply(UpdateWrite(Cur, t))
FindLoadStep(t) == tasks[t].pc = "f_load" /\ Apply(FindLoad(Cur, t))
SaveOpenStep(t) == tasks[t].pc = "s_open" /\ Apply(SaveOpen(Cur, t))
SaveWriteStep(t) == tasks[t].pc = "s_write" /\ Apply(SaveWrite(Cur, t))
SaveReplaceStep(t) == tasks[t].pc = "s_replace" /\ Apply(AfterSave(SaveReplace(Cur, t), t))

(* The server is stopped between requests and started again on the same
   directory: a new ShardManager, with an empty cache. *)
Restart ==
  /\ \A t \in Conns : tasks[t].pc = "idle"
  /\ cache # EmptyMap
  /\ cache' = EmptyMap
  /\ UNCHANGED <<files, infoDisk, tmpDisk, meta_lock, data_lock, tasks, hist, unreadable>>

Work(t) ==
  \/ ReadStep(t)
  \/ DecodeStep(t)
  \/ AddWriteStep(t)
  \/ DeleteZeroStep(t)
  \/ UpdateWriteStep(t)
  \/ FindLoadStep(t)
  \/ SaveOpenStep(t)
  \/ SaveWriteStep(t)
  \/ SaveReplaceStep(t)

Init ==
  /\ files = EmptyMap
  /\ infoDisk = EmptyMap
  /\ tmpDisk = EmptyMap
  /\ cache = EmptyMap
  /\ meta_lock = 0
  /\ data_lock = 0
  /\ tasks = [t \in Conns |-> IdleTask]
  /\ hist = [t \in Conns |-> <<>>]
  /\ unreadable = {}

(* Several connections at once. *)
Next ==
  \/ \E t \in Conns :
       \/ Create(t, MaxOps, CreateInputs)
       \/ Get(t, MaxOps)
       \/ Delete(t, MaxOps)
       \/ Update(t, MaxOps)
       \/ Find(t, MaxOps)
       \/ Acquire(t)
       \/ Work(t)
  \/ Restart

Spec == Init /\ [][Next]_vars

(* One connection, one request after the other, as testclient.py sends them. *)
NextSeq ==
  \/ Create(1, MaxOpsSeq, CreateInputsSeq)
  \/ Get(1, MaxOpsSeq)
  \/ Delete(1, MaxOpsSeq)
  \/ Update(1, MaxOpsSeq)
  \/ Find(1, MaxOpsSeq)
  \/ Work(1)
  \/ Restart

SpecSeq == Init /\ [][NextSeq]_vars

(***************************************************************************)
(* Interrupted saves.  _save_info, lines 98-105: when the open or the      *)
(* write of the temporary file raises, the temporary file is removed if it *)
(* exists and the exception leaves the request through both "async with"   *)
(* blocks, which release the locks; the cache is not touched.              *)
(***************************************************************************)
SaveFault(s, t) ==
  LET p == s.tasks[t].prefix
      s1 == [s EXCEPT !.tmpDisk = IF p \in DOMAIN s.tmpDisk THEN Drop(s.tmpDisk, p)
                                  ELSE s.tmpDisk] IN
  Finish(Release(s1, t), t, ReplyError("OSError"))

WriteFault(t) == tasks[t].pc \in {"s_open", "s_write"} /\ Apply(SaveFault(Cur, t))

(* The process dies with requests in progress and is started again on the
   same directory: the files are as they were left, the clients of the
   requests in progress get no answer, the new ShardManager (lines 32-42)
   has free locks and an empty cache. *)
Lost(s, t) == IF s.tasks[t].pc = "idle" THEN s ELSE Finish(s, t, ReplyError("ConnectionLost"))

RECURSIVE LostAll(_, _)
LostAll(s, n) == IF n = 0 THEN s ELSE LostAll(Lost(s, n), n - 1)

Crash ==
  /\ \E t \in Conns : tasks[t].pc # "idle"
  /\ Apply([LostAll(Cur, MaxConns) EXCEPT !.cache = EmptyMap,
                                          !.meta_lock = 0, !.data_lock = 0])

(* The requests that load and save directories, from several connections,
   with faults and crashes. *)
NextFault ==
  \/ \E t \in Conns :
       \/ Create(t, MaxOps, {Alice})
       \/ Delete(t, MaxOps)
       \/ Update(t, MaxOps)
       \/ Find(t, MaxOps)
       \/ Acquire(t)
       \/ Work(t)
       \/ WriteFault(t)
  \/ Crash

SpecFault == Init /\ [][NextFault]_vars

(***************************************************************************)
(* Directory reads that fail.  The file system stalls or refuses the read  *)
(* of a prefix's document for a while; nothing on disk changes.            *)
(***************************************************************************)
Prefixes == {_sanitize_shard_prefix(v["username"]) : v \in CreateInputs}

Stall(p) ==
  /\ p \notin unreadable
  /\ p \in DOMAIN infoDisk
  /\ unreadable' = unreadable \cup {p}
  /\ UNCHANGED <<files, infoDisk, tmpDisk, cache, meta_lock, data_lock, tasks, hist>>

Recover(p) ==
  /\ p \in unreadable
  /\ unreadable' = unreadable \ {p}
  /\ UNCHANGED <<files, infoDisk, tmpDisk, cache, meta_lock, data_lock, tasks, hist>>

(* One connection, with directory reads that fail. *)
NextTimeout ==
  \/ Create(1, MaxOpsSeq, CreateInputs)
  \/ Get(1, MaxOpsSeq)
  \/ Delete(1, MaxOpsSeq)
  \/ Update(1, MaxOpsSeq)
  \/ Find(1, MaxOpsSeq)
  \/ Work(1)
  \/ \E p \in Prefixes : Stall(p) \/ Recover(p)

SpecTimeout == Init /\ [][NextTimeout]_vars

(***************************************************************************)
(* Scheduling.  The event loop runs every task that is ready, so a task    *)
(* that stays at a step of its work takes it: weak fairness of Work(t).    *)
(* asyncio.Lock wakes its waiters in the order they came, so a task that   *)
(* waits for meta_lock gets it after finitely many releases: strong        *)
(* fairness of Acquire(t).  Both are written out with the state predicate  *)
(* that says when the action is possible (Work(t) at a working position,   *)
(* Acquire(t) at "lock" with meta_lock free) and with the change of        *)
(* tasks[t], which only a step of t makes.                                 *)
(***************************************************************************)
WorkPcs ==
  {"g_read", "g_fin", "a_write", "d_zero", "u_write", "f_load", "s_open", "s_write",
   "s_replace"}

WeakFairWork(t) ==
  \/ []<>(tasks[t].pc \notin WorkPcs)
  \/ []<><<tasks[t].pc \in WorkPcs /\ tasks'[t] # tasks[t]>>_vars

StrongFairAcquire(t) ==
  \/ <>[](~(tasks[t].pc = "lock" /\ meta_lock = 0))
  \/ []<><<tasks[t].pc = "lock" /\ tasks'[t] # tasks[t]>>_vars

Fairness == \A t \in Conns : WeakFairWork(t) /\ StrongFairAcquire(t)

(* Several connections at once, on the records of one prefix. *)
NextLive ==
  \E t \in Conns :
    \/ Create(t, MaxOps, {Alice})
    \/ Get(t, MaxOps)
    \/ Delete(t, MaxOps)
    \/ Update(t, MaxOps)
    \/ Find(t, MaxOps)
    \/ Acquire(t)
    \/ Work(t)

SpecLive == Init /\ [][NextLive]_vars /\ Fairness

(***************************************************************************)
(* A store that grows to shard index 10: one connection sends              *)
(* GrownCreates creates for one prefix and then a few requests of any      *)
(* kind.  The first shard rolls over at create RECORD_LIMIT + 1 and every  *)
(* later shard takes RECORD_LIMIT + 1 creates, so create number            *)
(* 10 * (RECORD_LIMIT + 1) returns shard index 10 and the next one writes  *)
(* that shard's file.                                                      *)
(***************************************************************************)
GrownCreates == 10 * (RECORD_LIMIT + 1) + 1

MaxOpsRef == 2

Grown == Len(hist[1]) >= GrownCreates

NextRef ==
  \/ Create(1, GrownCreates + MaxOpsRef, {Alice})
  \/ Grown /\ Get(1, GrownCreates + MaxOpsRef)
  \/ Grown /\ Delete(1, GrownCreates + MaxOpsRef)
  \/ Grown /\ Update(1, GrownCreates + MaxOpsRef)
  \/ Grown /\ Find(1, GrownCreates + MaxOpsRef)
  \/ Work(1)
  \/ Grown /\ Restart

SpecRef == Init /\ [][NextRef]_vars

(***************************************************************************)
(* One connection that sends requests about records of one prefix, long    *)
(* enough to free two slots of a shard in either order and create again.   *)
(***************************************************************************)
MaxOpsFree == 5

NextFree ==
  \/ Create(1, MaxOpsFree, {Alice})
  \/ Get(1, MaxOpsFree)
  \/ Delete(1, MaxOpsFree)
  \/ Update(1, MaxOpsFree)
  \/ Find(1, MaxOpsFree)
  \/ Work(1)

SpecFree == Init /\ [][NextFree]_vars

(***************************************************************************)
(* One connection whose creates and updates carry a value longer than the  *)
(* field's maximum length.                                                 *)
(***************************************************************************)
LongValue == <<"1", "2", "3">>

Carol == [Alice EXCEPT !.last_ip = LongValue]

LongUpdates == {<<<<"last_ip", LongValue>>>>, <<<<"last_ip", <<"2">>>>>>}

UpdateLong(t, max) ==
  /\ Ready(t, max)
  /\ \E ref \in KnownRefs, upd \in LongUpdates : Apply(UpdateStart(Cur, t, ref, upd))

NextLong ==
  \/ Create(1, MaxOpsSeq, {Alice, Carol})
  \/ Get(1, MaxOpsSeq)
  \/ Delete(1, MaxOpsSeq)
  \/ UpdateLong(1, MaxOpsSeq)
  \/ Find(1, MaxOpsSeq)
  \/ Work(1)
  \/ Restart

SpecLong == Init /\ [][NextLong]_vars

(***************************************************************************)
(* What a request answers when it runs alone on the present state, from    *)
(* its start to its return: get_record (lines 190-220) and find_records    *)
(* (lines 331-346).                                                        *)
(***************************************************************************)
get_record(s, ref) ==
  LET b == GetBegin(s, ref)
      p == ParseRef(ref) IN
  IF b.st = "hit" THEN [ok |-> TRUE, rec |-> b.rec]
  ELSE IF b.st = "none" THEN NoRec
       ELSE DecodeRecord(ReadSlot(s.files, _get_shard_data_path(p.prefix, p.shard_index),
                                  p.record_id))

find_records(s, field, value) ==
  LET info == _load_info(s, _sanitize_shard_prefix(value))
      key == <<field, value>>
      refs == IF key \in DOMAIN info.index THEN info.index[key] ELSE <<>> IN
  {refs[i] : i \in {j \in 1..Len(refs) : get_record(s, refs[j]).ok}}

(***************************************************************************)
(* Vocabulary of the properties.                                           *)
(***************************************************************************)
Answered == UNION {{<<c, i>> : i \in 1..Len(hist[c])} : c \in Conns}
Entry(e) == hist[e[1]][e[2]]
Created(e) == Entry(e).op = "create" /\ Entry(e).reply.kind = "ref"
Deleted(e) == Entry(e).op = "delete" /\ Entry(e).reply.ok
Updated(e) == Entry(e).op = "update" /\ Entry(e).reply.kind = "bool" /\ Entry(e).reply.ok
IsLast(e) == e[2] = Len(hist[e[1]])
AllIdle == \A t \in Conns : tasks[t].pc = "idle"
InFlight(op, ref) == \E t \in Conns : tasks[t].op = op /\ tasks[t].ref = ref

(* The slot a reference names, as bytes; <<>> where there is none. *)
SlotOf(ref) ==
  LET p == ParseRef(ref)
      path == _get_shard_data_path(p.prefix, p.shard_index) IN
  IF p.ok /\ path \in DOMAIN files THEN ReadSlot(files, path, p.record_id) ELSE <<>>

(* The fields create stores for the values v, under slot id n. *)
StoredFields(v, n) ==
  [f \in FieldSet |-> IF f = "id" THEN Str(n) ELSE _clean_field(v[f])]

(* e is the first successful create of its prefix on its connection. *)
FirstOfPrefix(e) ==
  \A d \in Answered :
     (d[1] = e[1] /\ d[2] < e[2] /\ Created(d))
       => _sanitize_shard_prefix(Entry(d).vals["username"])
            # _sanitize_shard_prefix(Entry(e).vals["username"])

(***************************************************************************)
(* C1 (create-then-get).  On one connection: when a create is the first    *)
(* one of its prefix and the next request is a get of the returned         *)
(* reference with no field filter, the reference is '<prefix>0:0' and the  *)
(* get answers id "0" and the five values given to create (as create       *)
(* stores them), whether the cache or the shard file serves it.            *)
(***************************************************************************)
C1_CreateThenGet ==
  \A e \in Answered :
    LET g == <<e[1], e[2] + 1>> IN
    (Created(e) /\ FirstOfPrefix(e) /\ g \in Answered /\ Entry(g).op = "get"
       /\ Entry(g).ref = Entry(e).reply.ref /\ Entry(g).flds = <<>>)
    => /\ Entry(e).reply.ref =
            MakeRef(_sanitize_shard_prefix(Entry(e).vals["username"]), 0, 0)
       /\ Entry(g).reply = ReplyRec(StoredFields(Entry(e).vals, 0))

(***************************************************************************)
(* C2 (no duplicate allocation).  As long as no record has been deleted,   *)
(* any two successful creates have returned different references.          *)
(***************************************************************************)
C2_NoDuplicateAllocation ==
  (\A d \in Answered : ~Deleted(d))
    => \A e1 \in Answered, e2 \in Answered :
         (Created(e1) /\ Created(e2) /\ e1 # e2)
           => Entry(e1).reply.ref # Entry(e2).reply.ref

(* The directory on disk says the last shard of prefix p is full: its file
   holds RECORD_LIMIT slots and its free list is empty. *)
LastShardFull(p) ==
  LET d == ReadDocument(infoDisk, p)
      path == _get_shard_data_path(p, d.shards - 1)
      key == Str(d.shards - 1) IN
  /\ d.shards >= 1
  /\ path \in DOMAIN files
  /\ SlotCount(files, path) = RECORD_LIMIT
  /\ (key \in DOMAIN d.free => d.free[key] = <<>>)

(***************************************************************************)
(* C3 (shard rollover).  When a create writes its slot while the last      *)
(* shard of its prefix is full, the shard count grows by one, the          *)
(* reference names the new shard and id 0, the encoded record is slot 0 of *)
(* the new shard's file, and the old shard's file is unchanged.            *)
(***************************************************************************)
C3_Rollover ==
  [][\A t \in Conns :
       (tasks[t].pc = "a_write" /\ tasks'[t].pc = "s_open"
          /\ LastShardFull(tasks[t].prefix))
       => LET p == tasks[t].prefix
              d == ReadDocument(infoDisk, p)
              old == _get_shard_data_path(p, d.shards - 1)
              new == _get_shard_data_path(p, d.shards) IN
          /\ tasks'[t].info.shards = d.shards + 1
          /\ tasks'[t].ref = MakeRef(p, d.shards, 0)
          /\ new \in DOMAIN files'
          /\ files'[new][1] = tasks[t].bytes
          /\ files'[old] = files[old]]_vars

(* Slot id of the file at path holds a live record whose field is value. *)
Matches(path, id, field, value) ==
  LET d == DecodeRecord(files[path][id + 1]) IN d.ok /\ d.rec[field] = value

(***************************************************************************)
(* C4 (find is global).  With nothing else in progress, the list a find    *)
(* has just answered holds every live record, of any prefix, whose field   *)
(* equals the value asked for.                                             *)
(***************************************************************************)
C4_FindIsGlobal ==
  \A e \in Answered :
    (IsLast(e) /\ AllIdle /\ Entry(e).op = "find" /\ Entry(e).reply.kind = "list")
    => \A path \in DOMAIN files : \A id \in 0..(Len(files[path]) - 1) :
         Matches(path, id, Entry(e).field, Entry(e).value)
           => \E i \in 1..Len(Entry(e).reply.list) :
                 Entry(e).reply.list[i].ref = <<path, id>>

(***************************************************************************)
(* C5 (delete then miss).  Once a delete of a reference has answered       *)
(* success, and while its slot is still zeroed (no create has reused it)   *)
(* and no other delete of it is in progress, a get of the reference        *)
(* answers not-found and no find includes the reference.                   *)
(***************************************************************************)
C5_DeleteThenMiss ==
  \A e \in Answered :
    LET ref == Entry(e).ref IN
    (Deleted(e) /\ SlotOf(ref) = ZeroSlot /\ ~InFlight("delete", ref))
    => /\ ~get_record(Cur, ref).ok
       /\ \A q \in FindInputs : ref \notin find_records(Cur, q[1], q[2])

(***************************************************************************)
(* C6 (update then get).  When the last request a connection had answered  *)
(* is a successful update of one field f to v, v is what the slot holds    *)
(* and no update or delete of the reference is in progress, a get of the   *)
(* reference filtered on f answers exactly the mapping f -> v.             *)
(***************************************************************************)
C6_UpdateThenGet ==
  \A e \in Answered :
    LET ref == Entry(e).ref
        upd == Entry(e).upd
        f == upd[1][1]
        v == upd[1][2] IN
    (IsLast(e) /\ Updated(e) /\ Len(upd) = 1 /\ f \in CreateFields
       /\ DecodeRecord(SlotOf(ref)).ok /\ DecodeRecord(SlotOf(ref)).rec[f] = v
       /\ ~InFlight("update", ref) /\ ~InFlight("delete", ref))
    => GetReply(get_record(Cur, ref), <<f>>) = ReplyRec((f :> v))

(***************************************************************************)
(* C7 (delete only a live record).  A reference has not been deleted with  *)
(* success more often than it has been created, and no slot id stands      *)
(* twice in a free list.                                                   *)
(***************************************************************************)
C7_DeleteOnlyLive ==
  /\ \A d \in Answered :
       Deleted(d) =>
         Cardinality({e \in Answered : Deleted(e) /\ Entry(e).ref = Entry(d).ref})
           <= Cardinality({e \in Answered :
                             Created(e) /\ Entry(e).reply.ref = Entry(d).ref})
  /\ \A p \in DOMAIN infoDisk : \A k \in DOMAIN infoDisk[p].info.free :
       LET fr == infoDisk[p].info.free[k] IN
       \A i \in 1..Len(fr), j \in 1..Len(fr) : i # j => fr[i] # fr[j]

(* The free list of the last shard of prefix p, as the directory on disk
   has it; <<>> where there is none. *)
LastFree(p) ==
  LET d == ReadDocument(infoDisk, p)
      key == Str(d.shards - 1) IN
  IF d.shards >= 1 /\ key \in DOMAIN d.free THEN d.free[key] ELSE <<>>

(***************************************************************************)
(* C8 (slot reuse).  When a create writes its slot: if the free list of    *)
(* the last shard of its prefix is not empty, the id is taken from that    *)
(* free list (and leaves it), the slot written is one the last shard's     *)
(* file already has, and no file grows or appears; a file grows or appears *)
(* only if that free list is empty.                                        *)
(***************************************************************************)
C8_SlotReuse ==
  [][\A t \in Conns :
       (tasks[t].pc = "a_write" /\ tasks'[t].pc = "s_open")
       => LET p == tasks[t].prefix
              d == ReadDocument(infoDisk, p)
              key == Str(d.shards - 1)
              path == _get_shard_data_path(p, d.shards - 1)
              grown == \/ DOMAIN files' # DOMAIN files
                       \/ \E q \in DOMAIN files : Len(files'[q]) # Len(files[q]) IN
          /\ LastFree(p) # <<>>
               => /\ InSeq(tasks[t].record_id, LastFree(p))
                  /\ tasks[t].info.free[key] = RemoveFirst(LastFree(p), tasks[t].record_id)
                  /\ tasks[t].data_path = path
                  /\ path \in DOMAIN files
                  /\ tasks[t].record_id < Len(files[path])
                  /\ files'[path][tasks[t].record_id + 1] = tasks[t].bytes
                  /\ ~grown
          /\ grown => LastFree(p) = <<>>]_vars

(* A create has just written its record into a slot it took from the free
   list, while the last shard's file also holds another slot. *)
C8_Witness ==
  \E t \in Conns :
    LET k == tasks[t] IN
    /\ k.pc = "s_open" /\ k.op = "create"
    /\ LastFree(k.prefix) # <<>>
    /\ k.record_id = Head(LastFree(k.prefix))
    /\ k.data_path \in DOMAIN files
    /\ Len(files[k.data_path]) = RECORD_LIMIT
    /\ files[k.data_path][k.record_id + 1] = k.bytes

(***************************************************************************)
(* C9 (atomic metadata replace).  With saves interrupted by write faults   *)
(* and crashes at any step: every directory document is complete at all    *)
(* times, so no load reads a partial one, and a document changes only in   *)
(* the rename step of a save, from the previous version to the complete    *)
(* new version of the saving request.                                      *)
(***************************************************************************)
C9_AtomicReplace ==
  [][/\ \A p \in DOMAIN infoDisk' : infoDisk'[p].complete
     /\ infoDisk' # infoDisk
          => \E t \in Conns :
               /\ tasks[t].pc = "s_replace"
               /\ infoDisk' = Put(infoDisk, tasks[t].prefix, Document(tasks[t].info))]_vars

(* A save was interrupted between the open and the end of the write: its
   partial temporary file is left behind, the request got no answer, and
   the document of the prefix is still the complete one of the save before. *)
C9_Witness ==
  /\ AllIdle
  /\ \E p \in DOMAIN tmpDisk :
       /\ ~tmpDisk[p].complete
       /\ p \in DOMAIN infoDisk
       /\ infoDisk[p].complete
       /\ infoDisk[p].info.shards = 1
  /\ \E e \in Answered : Entry(e).reply = ReplyError("ConnectionLost")

(* The prefix whose directory a create, update or delete in progress works on. *)
TaskPrefix(t) ==
  IF tasks[t].op = "create" THEN tasks[t].prefix ELSE ParseRef(tasks[t].ref).prefix

Mutating(t) == tasks[t].op \in {"create", "update", "delete"}

(***************************************************************************)
(* C10 (prefix independence).  A create, update or delete never waits for  *)
(* the lock while the lock is held by a create, update or delete on        *)
(* another prefix.                                                         *)
(***************************************************************************)
C10_PrefixIndependence ==
  \A t \in Conns :
    (tasks[t].pc = "lock" /\ Mutating(t) /\ meta_lock # 0 /\ Mutating(meta_lock))
      => TaskPrefix(meta_lock) = TaskPrefix(t)

(* Connection t's request is answered in this step. *)
Answers(t) == Len(hist'[t]) = Len(hist[t]) + 1

(* The reply of the request answered in this step. *)
NewReply(t) == hist'[t][Len(hist'[t])].reply

(* The slot a reference names holds a live record. *)
Live(ref) == DecodeRecord(SlotOf(ref)).ok

(***************************************************************************)
(* C11 (not found is a typed miss).  When a get, update or delete is       *)
(* answered while its reference names no live record, the answer is not an *)
(* error, and an answer of None or False comes without a change of the     *)
(* shard files, the directories or the cache.                              *)
(***************************************************************************)
C11_TypedMiss ==
  [][\A t \in Conns :
       (Answers(t) /\ tasks[t].op \in {"get", "update", "delete"} /\ ~Live(tasks[t].ref))
       => /\ NewReply(t).kind # "error"
          /\ NewReply(t) \in {ReplyNone, ReplyBool(FALSE)}
               => UNCHANGED <<files, infoDisk, cache>>]_vars

(***************************************************************************)
(* C12 (empty update is a no-op success).  On one connection: while an     *)
(* update that names only id and unknown fields is in progress, no step    *)
(* changes a shard file, a directory or the cache entry of the reference,  *)
(* and when the record is live the update answers success.                 *)
(***************************************************************************)
C12_EmptyUpdateNoOp ==
  [][\A t \in Conns :
       (tasks[t].op = "update" /\ CleanUpdates(tasks[t].upd) = <<>>)
       => LET ref == tasks[t].ref IN
          /\ files' = files
          /\ infoDisk' = infoDisk
          /\ ref \in DOMAIN cache => (ref \in DOMAIN cache' /\ cache'[ref] = cache[ref])
          /\ (Answers(t) /\ Live(ref)) => NewReply(t) = ReplyBool(TRUE)]_vars

(* The prefix whose directory a find loads. *)
FindPrefix(t) == _sanitize_shard_prefix(tasks[t].value)

(***************************************************************************)
(* C13 (metadata I/O timeout).  A create does not go on to write its slot, *)
(* and an update or delete does not go on to save the directory, after a   *)
(* load of the directory that failed or timed out; a find whose load       *)
(* failed or timed out answers with an error.                              *)
(***************************************************************************)
C13_LoadTimeoutAborts ==
  [][\A t \in Conns :
       /\ (tasks[t].pc # "a_write" /\ tasks'[t].pc = "a_write")
            => tasks'[t].prefix \notin unreadable
       /\ (tasks[t].pc \in {"d_zero", "u_write"} /\ tasks'[t].pc = "s_open")
            => tasks[t].prefix \notin unreadable
       /\ (tasks[t].pc = "f_load" /\ tasks'[t].pc # "f_load" /\ FindPrefix(t) \in unreadable)
            => (Answers(t) /\ NewReply(t).kind = "error")]_vars

(* Number of times x stands in the sequence q. *)
Occurrences(q, x) == Cardinality({i \in 1..Len(q) : q[i] = x})

(* The references of the live records of the files of prefix p. *)
LiveRefsOf(p) ==
  UNION {{<<path, id>> : id \in {i \in 0..(Len(files[path]) - 1) : Live(<<path, i>>)}}
         : path \in {q \in DOMAIN files : ParseRef(<<q, 0>>).prefix = p}}

(***************************************************************************)
(* C14 (index consistency).  With no request in progress, in every         *)
(* directory every reference listed under a key (f, v) stands there once   *)
(* and names a live record of that prefix whose field f is v (up to the    *)
(* padding blanks), and every live record of the prefix is listed under    *)
(* the key of each of its fields.                                          *)
(***************************************************************************)
C14_IndexConsistent ==
  AllIdle =>
    \A p \in DOMAIN infoDisk :
      LET index == ReadDocument(infoDisk, p).index IN
      /\ \A key \in DOMAIN index : \A i \in 1..Len(index[key]) :
           LET ref == index[key][i] IN
           /\ Occurrences(index[key], ref) = 1
           /\ ref \in LiveRefsOf(p)
           /\ DecodeRecord(SlotOf(ref)).rec[key[1]] = Strip(key[2])
      /\ \A ref \in LiveRefsOf(p) : \A f \in FieldSet :
           \E key \in DOMAIN index :
             /\ key[1] = f
             /\ Strip(key[2]) = DecodeRecord(SlotOf(ref)).rec[f]
             /\ InSeq(ref, index[key])

(* The free list the directory of prefix p has for shard index n. *)
FreeOf(p, n) ==
  LET free == ReadDocument(infoDisk, p).free IN
  IF Str(n) \in DOMAIN free THEN free[Str(n)] ELSE <<>>

(***************************************************************************)
(* C15 (free-list invariant).  With no request in progress, for every      *)
(* shard file: each slot id in the shard's free list stands there once and *)
(* its slot is zero-filled, and each slot of the file whose id is not in   *)
(* the free list holds a live record.                                      *)
(***************************************************************************)
C15_FreeListInvariant ==
  AllIdle =>
    \A path \in DOMAIN files :
      LET r == ParseRef(<<path, 0>>)
          free == FreeOf(r.prefix, r.shard_index) IN
      /\ \A i \in 1..Len(free) :
           /\ Occurrences(free, free[i]) = 1
           /\ SlotOf(<<path, free[i]>>) = ZeroSlot
      /\ \A id \in 0..(Len(files[path]) - 1) :
           ~InSeq(id, free) => Live(<<path, id>>)

(***************************************************************************)
(* C16 (create never writes over a live record).  When a create writes its *)
(* slot, the slot is beyond the end of the file it writes to (or the file  *)
(* is new), or it is zero-filled and its id is in the free list of that    *)
(* shard; and every live record has the same bytes after the write.        *)
(***************************************************************************)
C16_CreateKeepsLiveRecords ==
  [][\A t \in Conns :
       (tasks[t].pc = "a_write" /\ tasks'[t].pc = "s_open")
       => LET path == tasks[t].data_path
              id == tasks[t].record_id
              r == ParseRef(<<path, id>>) IN
          /\ \/ path \notin DOMAIN files
             \/ id >= Len(files[path])
             \/ /\ files[path][id + 1] = ZeroSlot
                /\ InSeq(id, FreeOf(r.prefix, r.shard_index))
          /\ \A q \in DOMAIN files : \A i \in 0..(Len(files[q]) - 1) :
               Live(<<q, i>>) => files'[q][i + 1] = files[q][i + 1]]_vars

(***************************************************************************)
(* C17 (cache coherence under concurrency).  Once every request has        *)
(* returned, and as long as no prefix has rolled over to a second shard,   *)
(* every reference in the cache names a live record, and the cached fields *)
(* are the decoded content of its slot (up to the padding blanks).         *)
(***************************************************************************)
C17_CacheCoherent ==
  (AllIdle /\ \A p \in DOMAIN infoDisk : ReadDocument(infoDisk, p).shards <= 1)
    => \A ref \in DOMAIN cache :
         /\ Live(ref)
         /\ [f \in FieldSet |-> Strip(cache[ref][f])] = DecodeRecord(SlotOf(ref)).rec

(***************************************************************************)
(* C18 (find returns only matching records).  Every record in the list a   *)
(* find(field, value) has answered, as get_record fetched it again for the *)
(* find, has the field equal to the value.                                 *)
(***************************************************************************)
C18_FindOnlyMatching ==
  \A e \in Answered :
    (Entry(e).op = "find" /\ Entry(e).reply.kind = "list")
    => \A i \in 1..Len(Entry(e).reply.list) :
         Entry(e).reply.list[i].rec[Entry(e).field] = Entry(e).value

(***************************************************************************)
(* C19 (every request returns).  data_lock is only held inside meta_lock,  *)
(* by the same task, and under fair scheduling every request that has      *)
(* started is answered, whether it ends with a result or an exception.     *)
(***************************************************************************)
C19_EveryRequestReturns ==
  /\ [](data_lock # 0 => data_lock = meta_lock)
  /\ \A t \in Conns : (tasks[t].pc # "idle") ~> (tasks[t].pc = "idle")

(* An update has raised TypeError inside its critical section while the
   other connection had a request of its own answered; every request has
   returned and both locks are free. *)
C19_Witness ==
  /\ AllIdle
  /\ meta_lock = 0
  /\ data_lock = 0
  /\ \E e \in Answered :
       /\ Entry(e).reply = ReplyError("TypeError")
       /\ \E d \in Answered : d[1] # e[1] /\ Entry(d).reply.kind # "error"

(* The prefix add_record gave the record of the create e. *)
OwnPrefix(e) == _sanitize_shard_prefix(_clean_field(Entry(e).vals["username"]))

(***************************************************************************)
(* C20 (reference resolution).  While an update or delete of a reference   *)
(* that a create has returned is inside its critical section, the shard    *)
(* file it works on is the file the reference names and the directory it   *)
(* loads and saves is the directory of the prefix the create used.         *)
(***************************************************************************)
C20_ReferenceResolution ==
  \A t \in Conns : \A e \in Answered :
    (/\ tasks[t].op \in {"update", "delete"}
     /\ tasks[t].pc \in {"d_zero", "u_write", "s_open", "s_write", "s_replace"}
     /\ Created(e)
     /\ Entry(e).reply.ref = tasks[t].ref)
    => /\ tasks[t].data_path = tasks[t].ref[1]
       /\ tasks[t].prefix = OwnPrefix(e)

(* The smallest id of a non-empty list of ids. *)
MinOf(free) ==
  CHOOSE m \in {free[i] : i \in 1..Len(free)} : \A i \in 1..Len(free) : m <= free[i]

(***************************************************************************)
(* C21 (smallest free id).  When a create writes its slot and the free     *)
(* list of the last shard of its prefix is not empty, the id it uses is    *)
(* the smallest id of that free list, whatever the order the ids were      *)
(* freed in.                                                               *)
(***************************************************************************)
C21_ReuseSmallestFree ==
  [][\A t \in Conns :
       (tasks[t].pc = "a_write" /\ tasks'[t].pc = "s_open"
        /\ LastFree(tasks[t].prefix) # <<>>)
       => tasks[t].record_id = MinOf(LastFree(tasks[t].prefix))]_vars

(* The request that connection t's step has just answered. *)
NewEntry(t) == hist'[t][Len(hist'[t])]

(* What update_record stores for the value v of field k. *)
UpdateStores(k, v) == CleanUpdates(<<<<k, v>>>>)[1][2]

(***************************************************************************)
(* C22 (lossy write on create).  A create whose username starts with a     *)
(* letter does not fail, whatever the lengths of its values, and the       *)
(* record it leaves holds each value as update_record would store it: with *)
(* separators and newlines removed and cut to the field's maximum length.  *)
(***************************************************************************)
C22_CreateTruncates ==
  [][\A t \in Conns :
       (/\ Answers(t)
        /\ NewEntry(t).op = "create"
        /\ NewEntry(t).vals["username"] # <<>>
        /\ IsAlpha(NewEntry(t).vals["username"][1]))
       => LET v == NewEntry(t).vals
              r == NewEntry(t).reply IN
          /\ r.kind = "ref"
          /\ r.ref \in DOMAIN cache'
          /\ \A f \in CreateFields : cache'[r.ref][f] = UpdateStores(f, v[f])]_vars

(* The values of rec are within the maximum lengths and hold no separator
   and no newline. *)
Encodable(rec) ==
  \A f \in FieldSet :
    /\ Len(rec[f]) <= MAX_LENGTHS[f]
    /\ \A i \in 1..Len(rec[f]) : rec[f][i] \notin {FIELD_SEPARATOR, NEWLINE}

(***************************************************************************)
(* C23 (codec round trip).  When a create writes its slot, decoding the    *)
(* bytes it writes yields exactly the values it encoded, the ones it then  *)
(* puts in the cache, leading and trailing spaces included; when an update *)
(* writes its slot, the decoded bytes hold exactly the values the update   *)
(* set.                                                                    *)
(***************************************************************************)
C23_CodecRoundTrip ==
  [][\A t \in Conns :
       /\ (tasks[t].pc = "a_write" /\ tasks'[t].pc = "s_open"
           /\ Encodable(tasks[t].values))
          => /\ DecodeRecord(tasks[t].bytes).ok
             /\ DecodeRecord(tasks[t].bytes).rec = tasks[t].values
       /\ (tasks[t].pc = "u_write" /\ tasks'[t].pc = "s_open")
          => /\ DecodeRecord(tasks[t].bytes).ok
             /\ Merge(DecodeRecord(tasks[t].bytes).rec, tasks[t].cleaned)
                  = DecodeRecord(tasks[t].bytes).rec]_vars

=============================================================================
